---------------------------- MODULE Spec2Model ----------------------------
(***************************************************************************)
(* A model of Scripts/check_slug_naming_in_json.py: the name validator,    *)
(* the recursive structural checker, the per-file checker, the file        *)
(* scanner and the CLI driver main().                                      *)
(*                                                                         *)
(* Strings are sequences of one-character strings, so that the regular     *)
(* expression, the path formatting and the ordering of paths are computed  *)
(* character by character as Python computes them.  Host semantics are     *)
(* those of a POSIX host (pathlib.PurePosixPath, case-sensitive fnmatch).  *)
(***************************************************************************)
EXTENDS Integers, Sequences, FiniteSets, TLC

VARIABLES
    mode,               \* which entry point this behaviour exercises
    pc,                 \* position inside the entry point
    name,               \* is_valid_name: the argument
    valid,              \* is_valid_name: the value returned
    content,            \* check_json_file: what open/read/json.loads deliver
    issues,             \* check_json_file: the list returned
    argv,               \* main: sys.argv[1:]
    root,               \* main: what folder_path is on disk
    tree,               \* main: the entries below folder_path
    json_files,         \* main: the list find_json_files returned
    queue,              \* main: sorted(json_files)
    cursor,             \* main: how many files of queue the for loop has taken
    reads,              \* main: per checked file, what reading it delivered
    total_issues,       \* main: local counter
    files_with_issues,  \* main: local counter
    stdout,             \* main: lines printed to standard output
    stderr,             \* main: lines printed to standard error
    exit_code           \* main: -1 while running, then the process exit code

vars == <<mode, pc, name, valid, content, issues, argv, root, tree, json_files,
          queue, cursor, reads, total_issues, files_with_issues, stdout, stderr,
          exit_code>>

---------------------------------------------------------------------------
(* Characters *)

LF == "\n"

\* ord(c) for the characters the model uses
Ord(c) ==
    CASE c = LF  -> 10
      [] c = " " -> 32
      [] c = "-" -> 45
      [] c = "." -> 46
      [] c = "/" -> 47
      [] c = "0" -> 48
      [] c = "1" -> 49
      [] c = "2" -> 50
      [] c = "3" -> 51
      [] c = "4" -> 52
      [] c = "9" -> 57
      [] c = "B" -> 66
      [] c = "H" -> 72
      [] c = "J" -> 74
      [] c = "L" -> 76
      [] c = "N" -> 78
      [] c = "O" -> 79
      [] c = "S" -> 83
      [] c = "W" -> 87
      [] c = "[" -> 91
      [] c = "]" -> 93
      [] c = "_" -> 95
      [] c = "a" -> 97
      [] c = "b" -> 98
      [] c = "c" -> 99
      [] c = "d" -> 100
      [] c = "e" -> 101
      [] c = "g" -> 103
      [] c = "h" -> 104
      [] c = "i" -> 105
      [] c = "j" -> 106
      [] c = "m" -> 109
      [] c = "n" -> 110
      [] c = "o" -> 111
      [] c = "p" -> 112
      [] c = "r" -> 114
      [] c = "s" -> 115
      [] c = "t" -> 116
      [] c = "z" -> 122

---------------------------------------------------------------------------
(* is_valid_name *)

\* the character class [a-z0-9\-]
InClass(c) ==
    \/ Ord(c) >= 97 /\ Ord(c) <= 122
    \/ Ord(c) >= 48 /\ Ord(c) <= 57
    \/ c = "-"

\* the longest run of class characters from the start: what the greedy + takes
RECURSIVE ClassRun(_, _)
ClassRun(s, k) ==
    IF k < Len(s) /\ InClass(s[k + 1]) THEN ClassRun(s, k + 1) ELSE k

\* Python's $ without re.MULTILINE: at the end of the string, or just before
\* a newline that is the string's last character
DollarAt(s, k) ==
    \/ k = Len(s)
    \/ k = Len(s) - 1 /\ s[Len(s)] = LF

\* VALID_PATTERN.match(name) is not None, for ^[a-z0-9\-]+$
VALID_PATTERN_match(s) ==
    \E k \in 1..ClassRun(s, 0) : DollarAt(s, k)

ALLOWED_EXCEPTIONS ==
    { <<"c","h","i","_","s","i","m">>,
      <<"c","h","i","_","t","r","a">>,
      <<"s","p","r","i","t","e","H","e","i","g","h","t">>,
      <<"s","p","r","i","t","e","W","i","d","t","h">>,
      <<"s","p","r","i","t","e","L","o","c","a","t","i","o","n","s">> }

is_valid_name(s) == s \in ALLOWED_EXCEPTIONS \/ VALID_PATTERN_match(s)

---------------------------------------------------------------------------
(* Inputs of is_valid_name *)

MaxNameLen == 3

NameAlphabet == {"a", "z", "0", "9", "-", "B", "_", " ", LF, "."}

RECURSIVE StringsUpTo(_, _)
StringsUpTo(A, n) ==
    IF n = 0 THEN {<<>>}
    ELSE LET shorter == StringsUpTo(A, n - 1)
         IN  shorter \cup {Append(s, c) : s \in {t \in shorter : Len(t) = n - 1}, c \in A}

NameInputs == StringsUpTo(NameAlphabet, MaxNameLen) \cup ALLOWED_EXCEPTIONS

---------------------------------------------------------------------------
(* Parsed JSON documents: what json.loads returns *)

\* a str
Str(s) == [t |-> "str", s |-> s, keys |-> <<>>, vals |-> <<>>]
\* an int, float, bool or None
Other == [t |-> "other", s |-> <<>>, keys |-> <<>>, vals |-> <<>>]
\* a list
List(es) == [t |-> "list", s |-> <<>>, keys |-> <<>>, vals |-> es]
\* a dict: keys[i] maps to vals[i], in insertion order, keys distinct
Dict(ks, vs) == [t |-> "dict", s |-> <<>>, keys |-> ks, vals |-> vs]

ValidSlug == <<"a", "-", "b">>
BadName == <<"B", "_">>
ChiSim == <<"c","h","i","_","s","i","m">>

\* the keys and the string values documents are built from: one slug, one
\* name that breaks the pattern, one allow-listed name
DocNames == {ValidSlug, BadName, ChiSim}

MaxNodes == 3

Scalars == {Str(n) : n \in DocNames} \cup {Other}

\* the sequences of k distinct keys
KeySeqs(k) ==
    {ks \in [1..k -> DocNames] : \A i, j \in 1..k : ks[i] = ks[j] => i = j}

RECURSIVE DocsOfSize(_), ForestsOfSize(_)
\* the documents with exactly n nodes (values)
DocsOfSize(n) ==
    (IF n = 1 THEN Scalars ELSE {})
    \cup {List(f) : f \in ForestsOfSize(n - 1)}
    \cup UNION {{Dict(ks, f) : ks \in KeySeqs(Len(f))} : f \in ForestsOfSize(n - 1)}
\* the sequences of documents with m nodes in all
ForestsOfSize(m) ==
    IF m = 0 THEN {<<>>}
    ELSE UNION {{<<d>> \o f : d \in DocsOfSize(k), f \in ForestsOfSize(m - k)} : k \in 1..m}

Docs == UNION {DocsOfSize(n) : n \in 1..MaxNodes}

---------------------------------------------------------------------------
(* check_object *)

\* str(idx) for the indexes the model reaches
Digits == <<"0", "1", "2", "3", "4">>
IndexText(idx) == <<"[", Digits[idx + 1], "]">>

\* (file_path, f"Invalid key '{key}' at {current_path}")
KeyIssue(file_path, key, current_path) ==
    [file |-> file_path, kind |-> "Invalid key", name |-> key, at |-> current_path]
\* (file_path, f"Invalid string '{item}' at {current_path}")
StringIssue(file_path, item, current_path) ==
    [file |-> file_path, kind |-> "Invalid string", name |-> item, at |-> current_path]

\* the is_top_level_array argument of both recursive calls
NestedFlagInherited(is_top_level_array) == is_top_level_array
NestedFlag(is_top_level_array) == FALSE

RECURSIVE check_object(_, _, _, _), check_items(_, _, _, _, _), check_elems(_, _, _, _, _)

\* faulty variant: a key is reported only at the document's top level
check_key_top_only(key, file_path, current_path) ==
    IF ~is_valid_name(key) /\ current_path = key
    THEN <<KeyIssue(file_path, key, current_path)>> ELSE <<>>
\* the issues the key on its own yields
check_key(key, file_path, current_path) ==
    IF ~is_valid_name(key) THEN <<KeyIssue(file_path, key, current_path)>> ELSE <<>>

\* the dict branch, from the i-th item on
check_items(obj, file_path, path, is_top_level_array, i) ==
    IF i > Len(obj.keys) THEN <<>>
    ELSE LET key == obj.keys[i]
             value == obj.vals[i]
             current_path == IF path # <<>> THEN path \o <<".">> \o key ELSE key
         IN  check_key(key, file_path, current_path)
             \o check_object(value, file_path, current_path,
                             NestedFlag(is_top_level_array))
             \o check_items(obj, file_path, path, is_top_level_array, i + 1)

\* the list branch, from the element of index idx on
check_elems(obj, file_path, path, is_top_level_array, idx) ==
    IF idx >= Len(obj.vals) THEN <<>>
    ELSE LET item == obj.vals[idx + 1]
             current_path == path \o IndexText(idx)
         IN  (IF item.t = "str"
              THEN IF is_top_level_array /\ ~is_valid_name(item.s)
                   THEN <<StringIssue(file_path, item.s, current_path)>>
                   ELSE <<>>
              ELSE check_object(item, file_path, current_path,
                                NestedFlag(is_top_level_array)))
             \o check_elems(obj, file_path, path, is_top_level_array, idx + 1)

check_object(obj, file_path, path, is_top_level_array) ==
    IF obj.t = "dict" THEN check_items(obj, file_path, path, is_top_level_array, 1)
    ELSE IF obj.t = "list" THEN check_elems(obj, file_path, path, is_top_level_array, 0)
    ELSE <<>>

---------------------------------------------------------------------------
(* check_json_file *)

\* what reading and parsing a path delivers: open()/read() raise, json.loads
\* raises JSONDecodeError, or json.loads returns data
Unreadable == [kind |-> "unreadable", data |-> Other]
Malformed == [kind |-> "malformed", data |-> Other]
Parsed(d) == [kind |-> "parsed", data |-> d]

ReadIssue(file_path) ==
    [file |-> file_path, kind |-> "Error reading file", name |-> <<>>, at |-> <<>>]
ParseIssue(file_path) ==
    [file |-> file_path, kind |-> "JSON parse error", name |-> <<>>, at |-> <<>>]

\* faulty variant: the parse error is caught and dropped
check_json_file_drops_parse_error(file_path, c) ==
    IF c.kind = "unreadable" THEN <<ReadIssue(file_path)>>
    ELSE IF c.kind = "malformed" THEN <<>>
    ELSE check_object(c.data, file_path, <<>>, c.data.t = "list")
\* issues starts empty; an exception inside the try appends one issue to it
check_json_file(file_path, c) ==
    LET issues0 == <<>>
    IN  IF c.kind = "unreadable" THEN Append(issues0, ReadIssue(file_path))
        ELSE IF c.kind = "malformed" THEN Append(issues0, ParseIssue(file_path))
        ELSE check_object(c.data, file_path, <<>>, c.data.t = "list")

FileContents == {Unreadable, Malformed} \cup {Parsed(d) : d \in Docs}

---------------------------------------------------------------------------
(* The directory tree below folder_path *)

NameA == <<"a">>
NameAJson == <<"a", ".", "j", "s", "o", "n">>
NameBUpper == <<"b", ".", "J", "S", "O", "N">>

\* the names an entry can have: a plain name, a name ending in .json, a
\* name ending in .JSON
EntryNames == {NameA, NameAJson, NameBUpper}

MaxEntries == 3

Entry(p, k) == [path |-> p, kind |-> k]

DirPaths(t) == {<<>>} \cup {e.path : e \in {x \in t : x.kind = "dir"}}

\* the entries that can be created in tree t
Addable(t) ==
    {e \in {Entry(Append(d, nm), k) : d \in DirPaths(t), nm \in EntryNames,
                                      k \in {"file", "dir"}} :
        \A x \in t : x.path # e.path}

RECURSIVE TreesOfSize(_)
TreesOfSize(n) ==
    IF n = 0 THEN {{}}
    ELSE UNION {{t \cup {e} : e \in Addable(t)} : t \in TreesOfSize(n - 1)}

Trees == UNION {TreesOfSize(n) : n \in 0..MaxEntries}

---------------------------------------------------------------------------
(* find_json_files *)

DotJson == <<".", "j", "s", "o", "n">>

\* fnmatch of an entry's name against '*.json': any prefix, then .json
MatchesPattern(nm) ==
    /\ Len(nm) >= Len(DotJson)
    /\ SubSeq(nm, Len(nm) - Len(DotJson) + 1, Len(nm)) = DotJson

\* folder.rglob('*.json') yields every entry, at any depth, whose name
\* matches, whatever its kind
Selected(e) == MatchesPattern(e.path[Len(e.path)])

\* the orders a set can be listed in
Orders(S) ==
    {f \in [1..Cardinality(S) -> S] : \A i, j \in 1..Cardinality(S) : f[i] = f[j] => i = j}

ErrLine(text) == [k |-> text]

\* faulty variant: a bad path ends the scan without a diagnostic
find_json_files_silent(r, t) ==
    IF r # "dir" THEN {[files |-> <<>>, err |-> <<>>]}
    ELSE {[files |-> l, err |-> <<>>] : l \in Orders({e.path : e \in {x \in t : Selected(x)}})}
\* the results find_json_files can return, with what it prints to stderr:
\* rglob lists in the order the host's directory listing gives
find_json_files(r, t) ==
    IF r = "missing"
    THEN {[files |-> <<>>, err |-> <<ErrLine("Error: Folder does not exist")>>]}
    ELSE IF r # "dir"
    THEN {[files |-> <<>>, err |-> <<ErrLine("Error: is not a directory")>>]}
    ELSE {[files |-> l, err |-> <<>>] : l \in Orders({e.path : e \in {x \in t : Selected(x)}})}

---------------------------------------------------------------------------
(* sorted(json_files): Path.__lt__ compares the lists of path components *)

\* str < str: by code point, a proper prefix first
RECURSIVE StrLess(_, _, _)
StrLess(a, b, i) ==
    IF i > Len(a) THEN i <= Len(b)
    ELSE IF i > Len(b) THEN FALSE
    ELSE IF a[i] # b[i] THEN Ord(a[i]) < Ord(b[i])
    ELSE StrLess(a, b, i + 1)

\* list < list: the first differing component decides, a proper prefix first
RECURSIVE PartsLess(_, _, _)
PartsLess(p, q, i) ==
    IF i > Len(p) THEN i <= Len(q)
    ELSE IF i > Len(q) THEN FALSE
    ELSE IF p[i] # q[i] THEN StrLess(p[i], q[i], 1)
    ELSE PartsLess(p, q, i + 1)

PathLess(p, q) == PartsLess(p, q, 1)

\* x put into the sorted list l, after the elements not greater than it
RECURSIVE Insert(_, _)
Insert(l, x) ==
    IF l = <<>> THEN <<x>>
    ELSE IF PathLess(x, l[1]) THEN <<x>> \o l
    ELSE <<l[1]>> \o Insert(Tail(l), x)

RECURSIVE SortFrom(_, _, _)
SortFrom(l, i, acc) ==
    IF i > Len(l) THEN acc ELSE SortFrom(l, i + 1, Insert(acc, l[i]))

\* faulty variant: the loop takes the files in the order they were found
unsorted(l) == l
sorted(l) == SortFrom(l, 1, <<>>)

---------------------------------------------------------------------------
(* main *)

NoIssue == [file |-> <<>>, kind |-> "", name |-> <<>>, at |-> <<>>]

\* one print() to standard output
Line(text) == [k |-> text, file |-> <<>>, issue |-> NoIssue, n |-> 0]
CountLine(text, n) == [k |-> text, file |-> <<>>, issue |-> NoIssue, n |-> n]
HeaderLine(f) == [k |-> "header", file |-> f, issue |-> NoIssue, n |-> 0]
IssueLine(i) == [k |-> "issue", file |-> <<>>, issue |-> i, n |-> 0]

UsageLines ==
    << Line("Usage: python check_json_naming.py <folder_path>"),
       Line("Checks all JSON files in the folder for invalid object keys"),
       Line("Only lowercase letters, digits, and hyphens (-) are allowed for keys."),
       Line("Note: String values (like display text) are NOT checked."),
       Line("Exception: If the JSON file is a top-level array of strings") >>

SuccessLine == Line("All JSON files passed validation!")

\* the path argument
Folder == <<"d">>

\* what the files of a run hold: an unreadable file, malformed JSON, and
\* documents with no, one and two naming issues
SampleContents ==
    { Unreadable,
      Malformed,
      Parsed(Dict(<<ChiSim>>, <<Other>>)),
      Parsed(Dict(<<ValidSlug, BadName>>, <<Other, Other>>)),
      Parsed(List(<<Str(ValidSlug), Str(BadName)>>)),
      Parsed(Dict(<<BadName>>, <<Dict(<<BadName>>, <<Other>>)>>)) }

KindOf(t, p) == (CHOOSE e \in t : e.path = p).kind

\* open() of a directory raises IsADirectoryError
ReadOutcomes(t, p) == IF KindOf(t, p) = "dir" THEN {Unreadable} ELSE SampleContents

\* the issue lines of one file's block
RECURSIVE IssueLines(_, _)
IssueLines(iss, i) ==
    IF i > Len(iss) THEN <<>> ELSE <<IssueLine(iss[i])>> \o IssueLines(iss, i + 1)

\* faulty variant: one per file
AddIssuesOnePerFile(total, iss) == total + 1
\* total_issues += len(issues)
AddIssues(total, iss) == total + Len(iss)

\* faulty variant: any issue count above one fails the run
ExitStatusOffByOne(total) == IF total > 1 THEN 1 ELSE 0
\* sys.exit(1) if total_issues > 0, else falling off the end of main
ExitStatus(total) == IF total > 0 THEN 1 ELSE 0

\* faulty variant: the confirmation is printed before the test
ClosingLinesAlways(total) == <<SuccessLine>>
\* what is printed after the summary
ClosingLines(total) == IF total > 0 THEN <<>> ELSE <<SuccessLine>>

MainUsage ==
    /\ mode = "main" /\ pc = "start"
    /\ Len(argv) < 1
    /\ stdout' = stdout \o UsageLines
    /\ exit_code' = 1
    /\ pc' = "exit"
    /\ UNCHANGED <<mode, name, valid, content, issues, argv, root, tree, json_files,
                   queue, cursor, reads, total_issues, files_with_issues, stderr>>

MainScan ==
    /\ mode = "main" /\ pc = "start"
    /\ Len(argv) >= 1
    /\ \E r \in find_json_files(root, tree) :
          /\ json_files' = r.files
          /\ stderr' = stderr \o r.err
    /\ stdout' = Append(stdout, Line("Scanning for JSON files in"))
    /\ pc' = "scanned"
    /\ UNCHANGED <<mode, name, valid, content, issues, argv, root, tree, queue, cursor,
                   reads, total_issues, files_with_issues, exit_code>>

MainNoFiles ==
    /\ mode = "main" /\ pc = "scanned"
    /\ json_files = <<>>
    /\ stdout' = Append(stdout, Line("No JSON files found."))
    /\ exit_code' = 0
    /\ pc' = "exit"
    /\ UNCHANGED <<mode, name, valid, content, issues, argv, root, tree, json_files,
                   queue, cursor, reads, total_issues, files_with_issues, stderr>>

MainFound ==
    /\ mode = "main" /\ pc = "scanned"
    /\ json_files # <<>>
    /\ stdout' = Append(stdout, CountLine("Found JSON file(s)", Len(json_files)))
    /\ total_issues' = 0
    /\ files_with_issues' = 0
    /\ queue' = sorted(json_files)
    /\ cursor' = 0
    /\ pc' = "loop"
    /\ UNCHANGED <<mode, name, valid, content, issues, argv, root, tree, json_files,
                   reads, stderr, exit_code>>

MainCheckFile ==
    /\ mode = "main" /\ pc = "loop"
    /\ cursor < Len(queue)
    /\ LET json_file == queue[cursor + 1]
       IN  \E c \in ReadOutcomes(tree, json_file) :
              LET iss == check_json_file(json_file, c)
              IN  /\ reads' = Append(reads, [file |-> json_file, content |-> c])
                  /\ IF iss # <<>>
                     THEN /\ files_with_issues' = files_with_issues + 1
                          /\ total_issues' = AddIssues(total_issues, iss)
                          /\ stdout' = stdout \o <<HeaderLine(json_file)>>
                                              \o IssueLines(iss, 1)
                     ELSE UNCHANGED <<files_with_issues, total_issues, stdout>>
    /\ cursor' = cursor + 1
    /\ UNCHANGED <<mode, pc, name, valid, content, issues, argv, root, tree, json_files,
                   queue, stderr, exit_code>>

MainSummary ==
    /\ mode = "main" /\ pc = "loop"
    /\ cursor = Len(queue)
    /\ stdout' = stdout
                 \o << Line("============================================================"),
                       Line("Summary:"),
                       CountLine("Total files scanned", Len(json_files)),
                       CountLine("Files with issues", files_with_issues),
                       CountLine("Total issues found", total_issues) >>
                 \o ClosingLines(total_issues)
    /\ exit_code' = ExitStatus(total_issues)
    /\ pc' = "exit"
    /\ UNCHANGED <<mode, name, valid, content, issues, argv, root, tree, json_files,
                   queue, cursor, reads, total_issues, files_with_issues, stderr>>

---------------------------------------------------------------------------
(* Calls of is_valid_name and of check_json_file on their own *)

CheckedFile == <<"f", ".", "j", "s", "o", "n">>

CallIsValidName ==
    /\ mode = "name" /\ pc = "call"
    /\ valid' = is_valid_name(name)
    /\ pc' = "return"
    /\ UNCHANGED <<mode, name, content, issues, argv, root, tree, json_files, queue,
                   cursor, reads, total_issues, files_with_issues, stdout, stderr,
                   exit_code>>

CallCheckJsonFile ==
    /\ mode = "check" /\ pc = "call"
    /\ issues' = check_json_file(<<CheckedFile>>, content)
    /\ pc' = "return"
    /\ UNCHANGED <<mode, name, valid, content, argv, root, tree, json_files, queue,
                   cursor, reads, total_issues, files_with_issues, stdout, stderr,
                   exit_code>>

---------------------------------------------------------------------------
(* Specifications *)

\* the variables an entry point does not use
IdleName == name = <<>> /\ valid = FALSE
IdleCheck == content = Unreadable /\ issues = <<>>
IdleMain ==
    /\ argv = <<>> /\ root = "missing" /\ tree = {}
    /\ json_files = <<>> /\ queue = <<>> /\ cursor = 0 /\ reads = <<>>
    /\ total_issues = 0 /\ files_with_issues = 0
    /\ stdout = <<>> /\ stderr = <<>> /\ exit_code = -1

InitName ==
    /\ mode = "name" /\ pc = "call"
    /\ name \in NameInputs /\ valid = FALSE
    /\ IdleCheck /\ IdleMain

InitCheck ==
    /\ mode = "check" /\ pc = "call"
    /\ content \in FileContents /\ issues = <<>>
    /\ IdleName /\ IdleMain

InitMain ==
    /\ mode = "main" /\ pc = "start"
    /\ argv \in {<<>>, <<Folder>>}
    /\ root \in {"missing", "file", "dir"}
    /\ tree \in (IF root = "dir" THEN Trees ELSE {{}})
    /\ json_files = <<>> /\ queue = <<>> /\ cursor = 0 /\ reads = <<>>
    /\ total_issues = 0 /\ files_with_issues = 0
    /\ stdout = <<>> /\ stderr = <<>> /\ exit_code = -1
    /\ IdleName /\ IdleCheck

NextName == CallIsValidName
NextCheck == CallCheckJsonFile
NextMain ==
    \/ MainUsage
    \/ MainScan
    \/ MainNoFiles
    \/ MainFound
    \/ MainCheckFile
    \/ MainSummary

SpecName == InitName /\ [][NextName]_vars
SpecCheck == InitCheck /\ [][NextCheck]_vars
SpecMain == InitMain /\ [][NextMain]_vars

---------------------------------------------------------------------------
(* Properties of is_valid_name *)

\* every character of s is a lowercase ASCII letter, a digit or a hyphen
AllInClass(s) == \A i \in 1..Len(s) : InClass(s[i])

\* C2: is_valid_name(name) is true if and only if name is one of the five
\* allow-listed strings or name is non-empty and every one of its characters
\* is a lowercase ASCII letter, a digit or a hyphen.
C2_ValidIffAllowedOrSlug ==
    (mode = "name" /\ pc = "return") =>
        (valid <=> (name \in ALLOWED_EXCEPTIONS \/ (name # <<>> /\ AllInClass(name))))

---------------------------------------------------------------------------
(* Properties of check_object, through check_json_file on a parsed file *)

\* the positions of the root array's own string elements that are not valid
RootInvalidStrings(d) ==
    IF d.t = "list"
    THEN {i \in 1..Len(d.vals) : d.vals[i].t = "str" /\ ~is_valid_name(d.vals[i].s)}
    ELSE {}

\* the issues of one kind, in order
RECURSIVE OfKind(_, _, _)
OfKind(iss, kind, i) ==
    IF i > Len(iss) THEN <<>>
    ELSE (IF iss[i].kind = kind THEN <<iss[i]>> ELSE <<>>) \o OfKind(iss, kind, i + 1)

\* the number of key occurrences, at any depth of d, that are not valid
RECURSIVE InvalidKeyCount(_), InvalidKeyCountFrom(_, _)
InvalidKeyCountFrom(d, i) ==
    IF i > Len(d.vals) THEN 0
    ELSE (IF d.t = "dict" /\ ~is_valid_name(d.keys[i]) THEN 1 ELSE 0)
         + InvalidKeyCount(d.vals[i])
         + InvalidKeyCountFrom(d, i + 1)
InvalidKeyCount(d) == InvalidKeyCountFrom(d, 1)

\* d holds, below the root's own elements, a string that is not valid
RECURSIVE HasInvalidString(_)
HasInvalidString(d) ==
    \/ d.t = "str" /\ ~is_valid_name(d.s)
    \/ \E i \in 1..Len(d.vals) : HasInvalidString(d.vals[i])
HasNestedInvalidString(d) ==
    \E i \in 1..Len(d.vals) :
        d.vals[i].t # "str" /\ HasInvalidString(d.vals[i])

\* C3: the 'Invalid string' issues of a parsed document are exactly those of
\* the root array's own string elements that are not valid, one each, in
\* order; strings anywhere else (in a nested array, as an object's value)
\* yield none.
C3_OnlyRootArrayStrings ==
    (mode = "check" /\ pc = "return" /\ content.kind = "parsed") =>
        LET d == content.data
            strs == OfKind(issues, "Invalid string", 1)
        IN  /\ Len(strs) = Cardinality(RootInvalidStrings(d))
            /\ \A j \in 1..Len(strs) :
                  \E i \in RootInvalidStrings(d) :
                      /\ strs[j].name = d.vals[i].s
                      /\ strs[j].at = IndexText(i - 1)
                      /\ Cardinality({h \in RootInvalidStrings(d) : h < i}) = j - 1

\* C3 witness: a document with an invalid string inside a nested value was
\* checked and no 'Invalid string' issue was returned.
C3_Witness ==
    /\ mode = "check" /\ pc = "return" /\ content.kind = "parsed"
    /\ content.data.t = "list"
    /\ HasNestedInvalidString(content.data)
    /\ OfKind(issues, "Invalid string", 1) = <<>>

\* C6: the number of issues of a parsed document is the number of key
\* occurrences at any depth that are not valid plus the number of the root
\* array's own string elements that are not valid.
C6_OneIssuePerOffendingName ==
    (mode = "check" /\ pc = "return" /\ content.kind = "parsed") =>
        /\ Len(issues) = InvalidKeyCount(content.data)
                         + Cardinality(RootInvalidStrings(content.data))
        /\ Len(OfKind(issues, "Invalid key", 1)) = InvalidKeyCount(content.data)

\* C6 witness: the same invalid key at two paths gave two issues.
C6_Witness ==
    /\ mode = "check" /\ pc = "return" /\ content.kind = "parsed"
    /\ Len(issues) = 2
    /\ issues[1].kind = "Invalid key" /\ issues[2].kind = "Invalid key"
    /\ issues[1].name = issues[2].name
    /\ issues[1].at # issues[2].at

---------------------------------------------------------------------------
(* Properties of main *)

HasDirArg == mode = "main" /\ Len(argv) >= 1

\* what check_json_file returned for the i-th file checked
ReadIssues(i) == check_json_file(reads[i].file, reads[i].content)

RECURSIVE IssuesUpTo(_)
IssuesUpTo(i) == IF i = 0 THEN 0 ELSE Len(ReadIssues(i)) + IssuesUpTo(i - 1)

\* the issues collected over all files checked so far
RunTotalIssues == IssuesUpTo(Len(reads))
RunFilesWithIssues == Cardinality({i \in 1..Len(reads) : ReadIssues(i) # <<>>})

Failed(i) == reads[i].content.kind \in {"unreadable", "malformed"}

Printed(l) == \E i \in 1..Len(stdout) : stdout[i] = l
PrintedKind(text) == \E i \in 1..Len(stdout) : stdout[i].k = text

\* the issue lines printed for file f
IssueLinesOf(f) ==
    Cardinality({i \in 1..Len(stdout) : stdout[i].k = "issue" /\ stdout[i].issue.file = f})

Elems(l) == {l[i] : i \in 1..Len(l)}

\* C1: a run given a directory argument exits with code 1 if and only if the
\* issues collected over all checked files are more than zero, and with code
\* 0 otherwise, also when no JSON file is found.
C1_ExitCodeIffIssues ==
    (HasDirArg /\ pc = "exit") =>
        /\ exit_code \in {0, 1}
        /\ exit_code = 1 <=> RunTotalIssues > 0
        /\ json_files = <<>> => exit_code = 0

\* C1 witness: a run with a directory argument found issues and exited 1.
C1_Witness ==
    /\ HasDirArg /\ pc = "exit" /\ exit_code = 1
    /\ Len(reads) >= 2 /\ RunTotalIssues > 0

\* C4: a file whose reading or parsing fails yields exactly one issue, an
\* error issue for that file, printed as that file's only issue line; the
\* loop goes on, and at the end every discovered file has been checked.
C4_OneIssuePerFailedFile ==
    HasDirArg =>
        /\ \A i \in 1..Len(reads) :
              Failed(i) =>
                  /\ Len(ReadIssues(i)) = 1
                  /\ ReadIssues(i)[1].kind \in {"Error reading file", "JSON parse error"}
                  /\ ReadIssues(i)[1].file = reads[i].file
                  /\ IssueLinesOf(reads[i].file) = 1
        /\ pc = "loop" => Len(reads) = cursor
        /\ (pc = "exit" /\ json_files # <<>>) =>
              /\ Len(reads) = Len(json_files)
              /\ Elems([i \in 1..Len(reads) |-> reads[i].file]) = Elems(json_files)

\* C4 witness: a file failed and a later file of the same run was parsed.
C4_Witness ==
    /\ HasDirArg /\ pc = "exit"
    /\ \E i, j \in 1..Len(reads) :
          i < j /\ reads[i].content.kind = "malformed" /\ reads[j].content.kind = "parsed"

\* C5: when the path is missing or is not a directory, one error goes to
\* stderr, no file is found or checked, 'No JSON files found.' is printed
\* and the run exits with code 0.
C5_BadPathExitsZero ==
    (HasDirArg /\ root # "dir") =>
        /\ pc \in {"start", "scanned", "exit"}
        /\ reads = <<>>
        /\ pc # "start" => (Len(stderr) = 1 /\ json_files = <<>>)
        /\ pc = "exit" =>
              /\ exit_code = 0
              /\ stdout[Len(stdout)] = Line("No JSON files found.")
              /\ ~PrintedKind("Summary:")

\* C5 witness: a run on a path that is not a directory has ended.
C5_Witness == HasDirArg /\ root = "file" /\ pc = "exit"

\* C7: for an existing directory, find_json_files returns exactly the
\* regular files, at any depth, whose name ends in .json, each once.
C7_ExactlyTheJsonFiles ==
    (HasDirArg /\ root = "dir" /\ pc = "scanned") =>
        /\ Elems(json_files) =
              {e.path : e \in {x \in tree : x.kind = "file"
                                            /\ MatchesPattern(x.path[Len(x.path)])}}
        /\ Len(json_files) = Cardinality(Elems(json_files))

\* where the summary's counter lines and the confirmation may stand
SuccessLast ==
    \A i \in 1..Len(stdout) :
        stdout[i] = SuccessLine =>
            /\ i = Len(stdout) /\ i > 3
            /\ stdout[i - 3].k = "Total files scanned"
            /\ stdout[i - 2].k = "Files with issues"
            /\ stdout[i - 1].k = "Total issues found"

\* C8, as stated: in a run given a directory argument the confirmation is
\* printed if and only if the run ends with zero issues in all.
C8_SuccessIffNoIssues ==
    (HasDirArg /\ pc = "exit") =>
        /\ Printed(SuccessLine) <=> RunTotalIssues = 0
        /\ exit_code = 1 => ~Printed(SuccessLine)
        /\ SuccessLast

\* C8, amended: in a run given a directory argument that finds at least one
\* JSON file the confirmation is printed if and only if the run ends with
\* zero issues in all; a run that finds none prints neither the summary nor
\* the confirmation; the confirmation never comes with exit code 1 and
\* stands right after the summary counters, as the last line.
C8_SuccessIffFilesAndNoIssues ==
    (HasDirArg /\ pc = "exit") =>
        /\ Printed(SuccessLine) <=> (json_files # <<>> /\ RunTotalIssues = 0)
        /\ json_files = <<>> => ~PrintedKind("Summary:")
        /\ exit_code = 1 => ~Printed(SuccessLine)
        /\ SuccessLast

\* C8 witness: a run checked files, found nothing and printed the confirmation.
C8_Witness ==
    /\ HasDirArg /\ pc = "exit"
    /\ Len(reads) >= 2 /\ Printed(SuccessLine)

\* str(path): the folder and the components joined by /
RECURSIVE JoinFrom(_, _)
JoinFrom(p, i) ==
    IF i > Len(p) THEN <<>> ELSE <<"/">> \o p[i] \o JoinFrom(p, i + 1)
PathText(p) == Folder \o JoinFrom(p, 1)

\* the files of the printed blocks, in order
RECURSIVE HeadersFrom(_)
HeadersFrom(i) ==
    IF i > Len(stdout) THEN <<>>
    ELSE (IF stdout[i].k = "header" THEN <<stdout[i].file>> ELSE <<>>) \o HeadersFrom(i + 1)

\* the files checked so far that returned issues, in order
RECURSIVE WithIssuesFrom(_)
WithIssuesFrom(i) ==
    IF i > Len(reads) THEN <<>>
    ELSE (IF ReadIssues(i) # <<>> THEN <<reads[i].file>> ELSE <<>>) \o WithIssuesFrom(i + 1)

\* each discovered file checked once, blocks in the order of the checks and
\* before the summary
OnceEachBlocksFirst ==
    /\ \A i, j \in 1..Len(reads) : i # j => reads[i].file # reads[j].file
    /\ Elems([i \in 1..Len(reads) |-> reads[i].file]) \subseteq Elems(json_files)
    /\ (pc = "exit" /\ json_files # <<>>) =>
          Elems([i \in 1..Len(reads) |-> reads[i].file]) = Elems(json_files)
    /\ HeadersFrom(1) = WithIssuesFrom(1)
    /\ \A i, j \in 1..Len(stdout) :
          (stdout[i].k \in {"header", "issue"} /\ stdout[j].k = "Summary:") => i < j

\* C9, as stated: the files are checked in ascending lexicographic order of
\* their paths, each once, the blocks before the summary.
C9_CheckedInPathStringOrder ==
    HasDirArg =>
        /\ \A i, j \in 1..Len(reads) :
              i < j => StrLess(PathText(reads[i].file), PathText(reads[j].file), 1)
        /\ OnceEachBlocksFirst

\* C9, amended: whatever order find_json_files returns, the files are
\* checked in ascending order of their paths compared component by
\* component (each component as a string, a path before its extensions),
\* each discovered file once, the blocks before the summary.
C9_CheckedInPathOrder ==
    HasDirArg =>
        /\ \A i, j \in 1..Len(reads) :
              i < j => PathLess(reads[i].file, reads[j].file)
        /\ OnceEachBlocksFirst

\* C9 witness: the files were found in another order than they were checked
\* in, and two of them had their blocks printed.
C9_Witness ==
    /\ HasDirArg /\ pc = "exit"
    /\ Len(json_files) >= 2
    /\ PathLess(json_files[2], json_files[1])
    /\ Len(HeadersFrom(1)) >= 2

\* the counters of the loop agree with the files checked so far
CountersAgree ==
    (HasDirArg /\ pc \in {"loop", "exit"} /\ json_files # <<>>) =>
        /\ files_with_issues = RunFilesWithIssues
        /\ total_issues = RunTotalIssues
        /\ files_with_issues <= total_issues
        /\ files_with_issues <= Len(reads)
        /\ Len(reads) = cursor /\ cursor <= Len(json_files)
        /\ total_issues = 0 <=> files_with_issues = 0
        /\ pc = "exit" =>
              /\ Printed(CountLine("Total files scanned", Len(json_files)))
              /\ Printed(CountLine("Files with issues", files_with_issues))
              /\ Printed(CountLine("Total issues found", total_issues))
              /\ Len(json_files) = Cardinality({e \in tree : Selected(e)})

\* C10: throughout the loop files_with_issues is the number of checked files
\* that returned an issue and total_issues the sum of their issue counts;
\* the counters never decrease, and the summary's files scanned is the
\* number of discovered files.
C10_CountersTrackCheckedFiles ==
    /\ []CountersAgree
    /\ [][/\ total_issues' >= total_issues
          /\ files_with_issues' >= files_with_issues]_vars

\* C10 witness: in the loop, after a file with no issue and a file with two.
C10_Witness ==
    /\ HasDirArg /\ pc = "loop"
    /\ files_with_issues > 0
    /\ files_with_issues < Len(reads)
    /\ total_issues > files_with_issues

=============================================================================
